---- MODULE Spec2Model ----
(***************************************************************************)
(* Model of src/app.py: the /api/chat pipeline (retrieval, generation,     *)
(* logging) and the in-memory interaction log (a deque with maxlen         *)
(* guarded by log_lock) with its read endpoints /api/logs,                 *)
(* /api/logs/<id> and /api/logs/export.                                    *)
(*                                                                         *)
(* Each request handler is a thread.  A thread's steps are the places      *)
(* where it touches shared state (the lazily created clients, the deque,   *)
(* the lock) or waits for a backend.  Text is a sequence of one-character  *)
(* strings.                                                                *)
(***************************************************************************)
EXTENDS Integers, Sequences, FiniteSets, TLC

(* ------------------------------ bounds -------------------------------- *)

\* deque(maxlen=1000) in the source; the model runs the same deque with a
\* small maxlen so that eviction happens within the explored runs.
maxlen == 2

\* number of request-handler threads
NumHandlers == 2

\* total number of requests accepted in one run of the threaded server
MaxRequests == 3

\* the same for a server with a single handler thread
MaxSeqRequests == 4

(* ------------------------- program constants -------------------------- *)

MaxListLimit == 200
DefaultListLimit == 50
DefaultListOffset == 0
MaxExportLimit == 1000
DefaultExportLimit == 1000
SnippetLen == 150

Handlers == 1..NumHandlers

(* ------------------------------ inputs -------------------------------- *)

\* values of data['question'] that are strings
Questions == { <<>>, <<" ">>, <<" ", "a">>, <<"b", " ">> }

\* request.json: a falsy body (null, {}), a dict without the key, a dict
\* whose question is JSON null, a dict whose question is a string
Bodies ==
    { [kind |-> k, question |-> <<>>] : k \in {"falsy", "noquestion", "null"} }
    \cup { [kind |-> "str", question |-> q] : q \in Questions }

\* scored chunks the retrieval backend can return (scores in thousandths)
Chunk1 == [text |-> <<"t">>, score |-> 910, doc_id |-> "d1", doc_name |-> "FundA"]
Chunk2 == [text |-> <<"u", "v">>, score |-> 770, doc_id |-> "d2", doc_name |-> "FundB"]
ChunkSeqs == { <<>>, <<Chunk1, Chunk2>> }

\* a chunk text of n characters that differ from place to place
LongText(n) == [i \in 1..n |-> IF i % 3 = 0 THEN "a" ELSE IF i % 3 = 1 THEN "b" ELSE "c"]

LongChunk(n, doc) == [text |-> LongText(n), score |-> 500, doc_id |-> doc, doc_name |-> doc]

\* chunk sequences with texts around the snippet length
LongChunkSeqs ==
    { << LongChunk(SnippetLen, "FundA") >>,
      << LongChunk(SnippetLen + 1, "FundB") >>,
      << LongChunk(SnippetLen - 1, "FundA"), LongChunk(SnippetLen + 3, "FundB") >>,
      << LongChunk(SnippetLen + 1, "FundC"), LongChunk(SnippetLen, "FundA"),
         LongChunk(1, "FundB") >>,
      << LongChunk(SnippetLen + 50, "FundB"), LongChunk(0, "FundC") >> }

\* what a backend call can do: raise, or return
Raises == { "ValueError", "Exception" }

\* choices[0].message.content of a returned completion: text, the empty
\* string, None; or an empty choices list
Contents == { [kind |-> "text", text |-> <<"x", "y">>],
              [kind |-> "text", text |-> <<>>],
              [kind |-> "none", text |-> <<>>],
              [kind |-> "nochoices", text |-> <<>>] }

\* a query-string argument: absent, not an integer, or an integer
Arg(ints) == { [kind |-> "absent", val |-> 0], [kind |-> "bad", val |-> 0] }
             \cup { [kind |-> "int", val |-> v] : v \in ints }

LimitArgs == Arg({ -1, 0, 1, 50 })
OffsetArgs == Arg({ -1, 0, 1, 2 })
ExportLimitArgs == Arg({ -1, 1 })
Formats == { "json", "csv", "txt", "xml" }
LogIds == 0..(MaxSeqRequests + 1)

(* ----------------------------- helpers -------------------------------- *)

Min(a, b) == IF a < b THEN a ELSE b
Max(a, b) == IF a > b THEN a ELSE b

IsSpace(c) == c = " "

\* str.strip(): drop leading and trailing whitespace
RECURSIVE lstrip(_)
lstrip(s) == IF s # <<>> /\ IsSpace(Head(s)) THEN lstrip(Tail(s)) ELSE s

RECURSIVE rstrip(_)
rstrip(s) ==
    IF s # <<>> /\ IsSpace(s[Len(s)]) THEN rstrip(SubSeq(s, 1, Len(s) - 1)) ELSE s

\* (variant: the question is used as sent)
strip_missing(s) == s

strip(s) == rstrip(lstrip(s))

\* list.reverse()
Reverse(s) == [i \in 1..Len(s) |-> s[Len(s) + 1 - i]]

\* Python slice s[lo:hi] (step 1), lo and hi any integers: a negative
\* index counts from the end, then both are clamped to 0..len(s)
SliceIndex(i, n) == IF i < 0 THEN Max(i + n, 0) ELSE Min(i, n)

Slice(s, lo, hi) ==
    LET n == Len(s)
        a == SliceIndex(lo, n)
        b == SliceIndex(hi, n)
    IN  IF a < b THEN SubSeq(s, a + 1, b) ELSE <<>>

\* deque.append on a deque(maxlen=m): add on the right, and when the deque
\* was full discard one item from the left
\* (variant: a deque without maxlen)
DequeAppend_unbounded(d, x, m) == d \o <<x>>

DequeAppend(d, x, m) ==
    IF Len(d) >= m THEN Tail(d) \o <<x>> ELSE d \o <<x>>

(* ---------------------------- chat helpers ---------------------------- *)

\* (variant: >= instead of >)
Snippet_ge(text) ==
    IF Len(text) >= SnippetLen
    THEN SubSeq(text, 1, SnippetLen) \o <<".", ".", ".">>
    ELSE text

\* 'snippet': chunk_text[:150] + '...' if len(chunk_text) > 150 else chunk_text
Snippet(text) ==
    IF Len(text) > SnippetLen
    THEN SubSeq(text, 1, SnippetLen) \o <<".", ".", ".">>
    ELSE text

\* the chunks used here carry scores with three decimals, which
\* round(chunk_score, 3) returns unchanged
SourceInfo(chunk) ==
    [id |-> chunk.doc_id, name |-> chunk.doc_name,
     score |-> chunk.score, snippet |-> Snippet(chunk.text)]

BuildSources(chunks) == [i \in 1..Len(chunks) |-> SourceInfo(chunks[i])]

CannedAnswer == <<"n", "o">>

\* (variant: the error body says success)
ChatError_success(st, msg) ==
    [op |-> "chat", status |-> st, success |-> TRUE, error |-> msg,
     answer |-> <<>>, sources |-> <<>>, question |-> <<>>,
     has_id |-> FALSE, interaction_id |-> 0]

\* the error responses of /api/chat
ChatError(st, msg) ==
    [op |-> "chat", status |-> st, success |-> FALSE, error |-> msg,
     answer |-> <<>>, sources |-> <<>>, question |-> <<>>,
     has_id |-> FALSE, interaction_id |-> 0]

\* the success responses of /api/chat
ChatOk(ans, srcs, q, hasid, iid) ==
    [op |-> "chat", status |-> 200, success |-> TRUE, error |-> "",
     answer |-> ans, sources |-> srcs, question |-> q,
     has_id |-> hasid, interaction_id |-> iid]

\* the two except clauses of chat(): ValueError is reported as a
\* configuration error, anything else with its own message
ChatExcept(exc, msg) ==
    IF exc = "ValueError"
    THEN ChatError(500, "Configuration error")
    ELSE ChatError(500, msg)

NoResult == [op |-> "none"]

(* ------------------------------- state -------------------------------- *)

VARIABLES
    env,               \* which API keys are set in the environment
    knowledge_base,    \* the chunk sequences the retrieval backend can return
    ragie,             \* the global ragie client has been created
    openai_client,     \* the global openai client has been created
    interactions_log,  \* the deque
    log_lock,          \* 0 when free, else the handler holding it
    pc,                \* where each handler is
    data,              \* chat: the request body
    user_question,     \* chat: the trimmed question
    sources,           \* chat: source infos built from the chunks
    answer,            \* chat: the generated answer
    interaction,       \* chat: <<>> or <<the record built for logging>>
    args,              \* list/get/export: the request arguments
    result,            \* the response of the handler's last request
    calls,             \* per request: backend calls and appends made so far
    requests,          \* number of requests accepted so far
    workers,           \* how many handler threads the server runs
    hist               \* every record appended so far, in append order

vars == << env, knowledge_base, ragie, openai_client, interactions_log, log_lock, pc, data,
           user_question, sources, answer, interaction, args, result, calls,
           requests, workers, hist >>

chatLocals == << user_question, sources, answer, interaction >>

\* chunks: how many chunks the retrieval returned, -1 before it returns;
\* retrieved: those chunks; content: what the completion returned, "unset"
\* before it returns
NoCalls == [retrieval |-> 0, generation |-> 0, append |-> 0, chunks |-> -1,
            retrieved |-> <<>>, content |-> "unset"]

\* the content of a completion, for the record of calls: "text", "empty"
\* (the empty string), "none" or "nochoices"
ContentKind(content) ==
    IF content.kind = "text" /\ content.text = <<>> THEN "empty" ELSE content.kind
NoArgs == [op |-> "none"]
NoBody == [kind |-> "falsy", question |-> <<>>]

Init ==
    /\ env \in [ragie_key : BOOLEAN, openai_key : BOOLEAN]
    /\ knowledge_base = ChunkSeqs
    /\ ragie = FALSE
    /\ openai_client = FALSE
    /\ interactions_log = <<>>
    /\ log_lock = 0
    /\ pc = [t \in Handlers |-> "idle"]
    /\ data = [t \in Handlers |-> NoBody]
    /\ user_question = [t \in Handlers |-> <<>>]
    /\ sources = [t \in Handlers |-> <<>>]
    /\ answer = [t \in Handlers |-> <<>>]
    /\ interaction = [t \in Handlers |-> <<>>]
    /\ args = [t \in Handlers |-> NoArgs]
    /\ result = [t \in Handlers |-> NoResult]
    /\ calls = [t \in Handlers |-> NoCalls]
    /\ requests = 0
    /\ workers = NumHandlers
    /\ hist = <<>>

Free(t) == pc[t] \in {"idle", "done"}

\* a handler thread takes the next request
Accept(t) ==
    /\ Free(t)
    /\ t <= workers
    /\ requests < (IF workers = 1 THEN MaxSeqRequests ELSE MaxRequests)
    /\ requests' = requests + 1
    /\ calls' = [calls EXCEPT ![t] = NoCalls]
    /\ result' = [result EXCEPT ![t] = NoResult]

\* the handler returns its response
Finish(t, res) ==
    /\ pc' = [pc EXCEPT ![t] = "done"]
    /\ result' = [result EXCEPT ![t] = res]
    /\ UNCHANGED data
    /\ user_question' = [user_question EXCEPT ![t] = <<>>]
    /\ sources' = [sources EXCEPT ![t] = <<>>]
    /\ answer' = [answer EXCEPT ![t] = <<>>]
    /\ interaction' = [interaction EXCEPT ![t] = <<>>]
    /\ args' = [args EXCEPT ![t] = NoArgs]

(* ------------------------------ /api/chat ----------------------------- *)

\* POST /api/chat arrives with body b
ChatRequest(t, b) ==
    /\ Accept(t)
    /\ pc' = [pc EXCEPT ![t] = "chat_clients"]
    /\ data' = [data EXCEPT ![t] = b]
    /\ UNCHANGED << env, knowledge_base, ragie, openai_client, interactions_log, log_lock,
                    user_question, sources, answer, interaction, args,
                    workers, hist >>

\* get_ragie_client(); get_openai_client(): each creates its global client
\* on first use and raises ValueError when the key is not set
ChatClients(t) ==
    /\ pc[t] = "chat_clients"
    /\ LET ragie_ok == ragie \/ env.ragie_key
           openai_ok == openai_client \/ env.openai_key
       IN  /\ ragie' = ragie_ok
           /\ openai_client' = IF ragie_ok THEN openai_ok ELSE openai_client
           /\ IF ragie_ok /\ openai_ok
              THEN /\ pc' = [pc EXCEPT ![t] = "chat_validate"]
                   /\ UNCHANGED << result, data, chatLocals, args >>
              ELSE Finish(t, ChatExcept("ValueError", "key not set"))
    /\ UNCHANGED << env, knowledge_base, interactions_log, log_lock, calls, requests, workers, hist >>

\* data = request.json ... user_question = data.get('question', '').strip()
ChatValidate(t) ==
    /\ pc[t] = "chat_validate"
    /\ LET d == data[t]
           q == IF d.kind = "str" THEN strip(d.question) ELSE <<>>
       IN  CASE d.kind = "falsy" ->
                  Finish(t, ChatError(400, "Request body is required"))
             [] d.kind = "null" ->
                  \* None.strip() raises AttributeError
                  Finish(t, ChatExcept("Exception", "AttributeError"))
             [] q = <<>> ->
                  Finish(t, ChatError(400, "Question is required"))
             [] OTHER ->
                  /\ pc' = [pc EXCEPT ![t] = "chat_retrieve"]
                  /\ user_question' = [user_question EXCEPT ![t] = q]
                  /\ UNCHANGED << result, data, sources, answer, interaction, args >>
    /\ UNCHANGED << env, knowledge_base, ragie, openai_client, interactions_log, log_lock,
                    calls, requests, workers, hist >>

\* ragie_client.retrievals.retrieve(...) raises exc
ChatRetrieveRaise(t, exc) ==
    /\ pc[t] = "chat_retrieve"
    /\ calls' = [calls EXCEPT ![t].retrieval = @ + 1]
    /\ Finish(t, ChatExcept(exc, "retrieval failed"))
    /\ UNCHANGED << env, knowledge_base, ragie, openai_client, interactions_log, log_lock,
                    requests, workers, hist >>

\* (variant: the empty result is not special)
NoCoverage_never(context_chunks) == FALSE

\* if not context_chunks:
NoCoverage(context_chunks) == context_chunks = <<>>

\* (variant: the lock is taken before the answer is generated)
ChatRetrieve_locked(t, chunks) ==
    /\ pc[t] = "chat_retrieve"
    /\ log_lock = 0
    /\ calls' = [calls EXCEPT ![t].retrieval = @ + 1, ![t].chunks = Len(chunks),
                              ![t].retrieved = chunks]
    /\ IF NoCoverage(chunks)
       THEN /\ Finish(t, ChatOk(CannedAnswer, <<>>, user_question[t], FALSE, 0))
            /\ UNCHANGED log_lock
       ELSE /\ pc' = [pc EXCEPT ![t] = "chat_generate"]
            /\ sources' = [sources EXCEPT ![t] = BuildSources(chunks)]
            /\ log_lock' = t
            /\ UNCHANGED << result, data, user_question, answer, interaction, args >>
    /\ UNCHANGED << env, knowledge_base, ragie, openai_client, interactions_log,
                    requests, workers, hist >>

\* ragie_client.retrievals.retrieve(...) returns chunks; the loop builds
\* context_chunks and sources; no chunks gives the canned answer
ChatRetrieve(t, chunks) ==
    /\ pc[t] = "chat_retrieve"
    /\ calls' = [calls EXCEPT ![t].retrieval = @ + 1, ![t].chunks = Len(chunks),
                              ![t].retrieved = chunks]
    /\ IF NoCoverage(chunks)
       THEN Finish(t, ChatOk(CannedAnswer, <<>>, user_question[t], FALSE, 0))
       ELSE /\ pc' = [pc EXCEPT ![t] = "chat_generate"]
            /\ sources' = [sources EXCEPT ![t] = BuildSources(chunks)]
            /\ UNCHANGED << result, data, user_question, answer, interaction, args >>
    /\ UNCHANGED << env, knowledge_base, ragie, openai_client, interactions_log, log_lock,
                    requests, workers, hist >>

\* (variant: the exception is swallowed and the request goes on)
ChatGenerateRaise_swallowed(t, exc) ==
    /\ pc[t] = "chat_generate"
    /\ calls' = [calls EXCEPT ![t].generation = @ + 1]
    /\ pc' = [pc EXCEPT ![t] = "chat_build"]
    /\ answer' = [answer EXCEPT ![t] = <<>>]
    /\ UNCHANGED << result, data, user_question, sources, interaction, args >>
    /\ UNCHANGED << env, knowledge_base, ragie, openai_client, interactions_log, log_lock,
                    requests, workers, hist >>

\* openai_client_instance.chat.completions.create(...) raises exc
ChatGenerateRaise(t, exc) ==
    /\ pc[t] = "chat_generate"
    /\ calls' = [calls EXCEPT ![t].generation = @ + 1]
    /\ Finish(t, ChatExcept(exc, "generation failed"))
    /\ UNCHANGED << env, knowledge_base, ragie, openai_client, interactions_log, log_lock,
                    requests, workers, hist >>

\* the completion returns; answer = chat_completion.choices[0].message.content
\* and len(answer): an empty choices list raises IndexError, a None content
\* raises TypeError
ChatGenerate(t, content) ==
    /\ pc[t] = "chat_generate"
    /\ calls' = [calls EXCEPT ![t].generation = @ + 1,
                              ![t].content = ContentKind(content)]
    /\ CASE content.kind = "nochoices" ->
              Finish(t, ChatExcept("Exception", "IndexError"))
         [] content.kind = "none" ->
              Finish(t, ChatExcept("Exception", "TypeError"))
         [] OTHER ->
              /\ pc' = [pc EXCEPT ![t] = "chat_build"]
              /\ answer' = [answer EXCEPT ![t] = content.text]
              /\ UNCHANGED << result, data, user_question, sources, interaction, args >>
    /\ UNCHANGED << env, knowledge_base, ragie, openai_client, interactions_log, log_lock,
                    requests, workers, hist >>

\* datetime.utcnow(): time does not run backwards; it is read off the
\* number of requests that have arrived
utcnow == requests

\* 'id': len(interactions_log) + 1, read without the lock
NextId(log) == Len(log) + 1

\* interaction = {...}
ChatBuild(t) ==
    /\ pc[t] = "chat_build"
    /\ interaction' = [interaction EXCEPT ![t] =
          << [id |-> NextId(interactions_log),
              timestamp |-> utcnow,
              question |-> user_question[t],
              answer |-> answer[t],
              sources |-> sources[t],
              sources_count |-> Len(sources[t]),
              answer_length |-> Len(answer[t])] >>]
    /\ pc' = [pc EXCEPT ![t] = "chat_lock"]
    /\ UNCHANGED << env, knowledge_base, ragie, openai_client, interactions_log, log_lock,
                    data, user_question, sources, answer, args, result,
                    calls, requests, workers, hist >>

\* with log_lock:
ChatLock(t) ==
    /\ pc[t] = "chat_lock"
    /\ log_lock = 0
    /\ log_lock' = t
    /\ pc' = [pc EXCEPT ![t] = "chat_append"]
    /\ UNCHANGED << env, knowledge_base, ragie, openai_client, interactions_log, data,
                    chatLocals, args, result, calls, requests, workers, hist >>

\* (variant: the record is appended twice)
ChatAppend_twice(t) ==
    /\ pc[t] = "chat_append"
    /\ log_lock = t
    /\ LET rec == interaction[t][1]
       IN  /\ interactions_log' =
                 DequeAppend(DequeAppend(interactions_log, rec, maxlen), rec, maxlen)
           /\ hist' = Append(Append(hist, rec), rec)
           /\ Finish(t, ChatOk(answer[t], sources[t], user_question[t], TRUE, rec.id))
    /\ log_lock' = 0
    /\ calls' = [calls EXCEPT ![t].append = @ + 1]
    /\ UNCHANGED << env, knowledge_base, ragie, openai_client, requests, workers >>

\* interactions_log.append(interaction), leaving the with block, and the
\* response carrying interaction['id']
ChatAppend(t) ==
    /\ pc[t] = "chat_append"
    /\ log_lock = t
    /\ LET rec == interaction[t][1]
       IN  /\ interactions_log' = DequeAppend(interactions_log, rec, maxlen)
           /\ hist' = Append(hist, rec)
           /\ Finish(t, ChatOk(answer[t], sources[t], user_question[t], TRUE, rec.id))
    /\ log_lock' = 0
    /\ calls' = [calls EXCEPT ![t].append = @ + 1]
    /\ UNCHANGED << env, knowledge_base, ragie, openai_client, requests, workers >>

Chat(t) ==
    \/ \E b \in Bodies : ChatRequest(t, b)
    \/ ChatClients(t)
    \/ ChatValidate(t)
    \/ \E exc \in Raises : ChatRetrieveRaise(t, exc)
    \/ \E chunks \in knowledge_base : ChatRetrieve(t, chunks)
    \/ \E exc \in Raises : ChatGenerateRaise(t, exc)
    \/ \E content \in Contents : ChatGenerate(t, content)
    \/ ChatBuild(t)
    \/ ChatLock(t)
    \/ ChatAppend(t)

(* ------------------------------ /api/logs ----------------------------- *)

\* (variant: interactions_log.reverse() on the deque itself)
DequeAfterRead_reversed(log) == Reverse(log)

\* the reads copy the deque, logs_list = list(interactions_log), or only
\* iterate over it: the deque is afterwards what it was
DequeAfterRead(log) == log

\* int(request.args.get(name, default)): ValueError on a non-integer
ParseOk(a) == a.kind # "bad"
ParseInt(a, default) == IF a.kind = "absent" THEN default ELSE a.val

\* the read handlers' own except clause: a body with 'error', status 500
ReadError(o) == [op |-> o, status |-> 500, error |-> "exception"]

\* the copy of a record that get_logs puts in logs_summary
Summary(log) ==
    [id |-> log.id, timestamp |-> log.timestamp, question |-> log.question,
     answer |-> log.answer, sources |-> log.sources,
     sources_count |-> log.sources_count, answer_length |-> log.answer_length]

\* (variant: the copy is not reversed)
ListPage_unreversed(log, limit, offset) ==
    LET paginated_logs == Slice(log, offset, offset + limit)
    IN  [i \in 1..Len(paginated_logs) |-> Summary(paginated_logs[i])]

\* logs_list = list(interactions_log); logs_list.reverse();
\* paginated_logs = logs_list[offset:offset + limit]; logs_summary
ListPage(log, limit, offset) ==
    LET logs_list == Reverse(log)
        paginated_logs == Slice(logs_list, offset, offset + limit)
    IN  [i \in 1..Len(paginated_logs) |-> Summary(paginated_logs[i])]

\* GET /api/logs?limit=la&offset=oa arrives; limit and offset are parsed
ListRequest(t, la, oa) ==
    /\ Accept(t)
    /\ IF ParseOk(la) /\ ParseOk(oa)
       THEN /\ pc' = [pc EXCEPT ![t] = "list_lock"]
            /\ args' = [args EXCEPT ![t] =
                  [op |-> "list",
                   limit |-> Min(ParseInt(la, DefaultListLimit), MaxListLimit),
                   offset |-> ParseInt(oa, DefaultListOffset)]]
       ELSE /\ pc' = [pc EXCEPT ![t] = "list_error"]
            /\ UNCHANGED args
    /\ data' = [data EXCEPT ![t] = NoBody]
    /\ UNCHANGED << env, knowledge_base, ragie, openai_client, interactions_log, log_lock,
                    chatLocals, workers, hist >>

\* except Exception as e: return jsonify({'error': str(e)}), 500
ListError(t) ==
    /\ pc[t] = "list_error"
    /\ Finish(t, ReadError("list"))
    /\ UNCHANGED << env, knowledge_base, ragie, openai_client, interactions_log, log_lock,
                    calls, requests, workers, hist >>

\* with log_lock:
ListLock(t) ==
    /\ pc[t] = "list_lock"
    /\ log_lock = 0
    /\ log_lock' = t
    /\ pc' = [pc EXCEPT ![t] = "list_read"]
    /\ UNCHANGED << env, knowledge_base, ragie, openai_client, interactions_log, data,
                    chatLocals, args, result, calls, requests, workers, hist >>

\* the body of the with block, leaving it, and the response
ListRead(t) ==
    /\ pc[t] = "list_read"
    /\ log_lock = t
    /\ Finish(t, [op |-> "list", status |-> 200,
                  logs |-> ListPage(interactions_log, args[t].limit, args[t].offset),
                  total |-> Len(interactions_log),
                  limit |-> args[t].limit, offset |-> args[t].offset])
    /\ interactions_log' = DequeAfterRead(interactions_log)
    /\ log_lock' = 0
    /\ UNCHANGED << env, knowledge_base, ragie, openai_client, calls, requests, workers, hist >>

List(t) ==
    \/ \E la \in LimitArgs, oa \in OffsetArgs : ListRequest(t, la, oa)
    \/ ListError(t)
    \/ ListLock(t)
    \/ ListRead(t)

(* -------------------------- /api/logs/<log_id> ------------------------ *)

\* for log in interactions_log: if log['id'] == log_id: return jsonify(log)
\* <<the first record with that id>>, or <<>> when the loop ends
RECURSIVE GetLookup(_, _)
GetLookup(log, log_id) ==
    IF log = <<>> THEN <<>>
    ELSE IF Head(log).id = log_id THEN << Head(log) >>
    ELSE GetLookup(Tail(log), log_id)

\* GET /api/logs/<log_id> arrives
GetRequest(t, log_id) ==
    /\ Accept(t)
    /\ pc' = [pc EXCEPT ![t] = "get_lock"]
    /\ args' = [args EXCEPT ![t] = [op |-> "get", log_id |-> log_id]]
    /\ data' = [data EXCEPT ![t] = NoBody]
    /\ UNCHANGED << env, knowledge_base, ragie, openai_client, interactions_log, log_lock,
                    chatLocals, workers, hist >>

\* with log_lock:
GetLock(t) ==
    /\ pc[t] = "get_lock"
    /\ log_lock = 0
    /\ log_lock' = t
    /\ pc' = [pc EXCEPT ![t] = "get_read"]
    /\ UNCHANGED << env, knowledge_base, ragie, openai_client, interactions_log, data,
                    chatLocals, args, result, calls, requests, workers, hist >>

\* (variant: the return inside the with block keeps the lock)
GetRead_held(t) ==
    /\ pc[t] = "get_read"
    /\ log_lock = t
    /\ LET found == GetLookup(interactions_log, args[t].log_id)
       IN  IF found # <<>>
           THEN /\ Finish(t, [op |-> "get", status |-> 200, log |-> found,
                              log_id |-> args[t].log_id])
                /\ log_lock' = t
           ELSE /\ Finish(t, [op |-> "get", status |-> 404, log |-> <<>>,
                              log_id |-> args[t].log_id])
                /\ log_lock' = 0
    /\ interactions_log' = DequeAfterRead(interactions_log)
    /\ UNCHANGED << env, knowledge_base, ragie, openai_client, calls, requests, workers, hist >>

\* the loop; the return inside the with block and the fall through to the
\* 404 both release the lock
GetRead(t) ==
    /\ pc[t] = "get_read"
    /\ log_lock = t
    /\ LET found == GetLookup(interactions_log, args[t].log_id)
       IN  IF found # <<>>
           THEN Finish(t, [op |-> "get", status |-> 200, log |-> found,
                           log_id |-> args[t].log_id])
           ELSE Finish(t, [op |-> "get", status |-> 404, log |-> <<>>,
                           log_id |-> args[t].log_id])
    /\ interactions_log' = DequeAfterRead(interactions_log)
    /\ log_lock' = 0
    /\ UNCHANGED << env, knowledge_base, ragie, openai_client, calls, requests, workers, hist >>

Get(t) ==
    \/ \E log_id \in LogIds : GetRequest(t, log_id)
    \/ GetLock(t)
    \/ GetRead(t)

(* --------------------------- /api/logs/export ------------------------- *)

\* (variant: the copy is not reversed)
ExportList_unreversed(log, limit) ==
    IF limit < Len(log) THEN Slice(log, 0, limit) ELSE log

\* logs_list = list(interactions_log); logs_list.reverse();
\* if limit < total: logs_list = logs_list[:limit]
ExportList(log, limit) ==
    LET logs_list == Reverse(log)
    IN  IF limit < Len(log) THEN Slice(logs_list, 0, limit) ELSE logs_list

\* one csv row, and one txt block: six fields, no sources
Row(log) ==
    << log.id, log.timestamp, log.question, log.answer,
       log.sources_count, log.answer_length >>

\* the three serialisations; any format other than csv and txt is json
ExportBody(format, logs_list) ==
    CASE format = "csv" ->
           [format |-> "csv", header |-> TRUE,
            rows |-> [i \in 1..Len(logs_list) |-> Row(logs_list[i])]]
      [] format = "txt" ->
           [format |-> "txt", total_interactions |-> Len(logs_list),
            rows |-> [i \in 1..Len(logs_list) |-> Row(logs_list[i])]]
      [] OTHER ->
           [format |-> "json", total_interactions |-> Len(logs_list),
            logs |-> logs_list]

\* GET /api/logs/export?format=f&limit=la arrives; limit is parsed
ExportRequest(t, f, la) ==
    /\ Accept(t)
    /\ IF ParseOk(la)
       THEN /\ pc' = [pc EXCEPT ![t] = "export_lock"]
            /\ args' = [args EXCEPT ![t] =
                  [op |-> "export", format |-> f,
                   limit |-> Min(ParseInt(la, DefaultExportLimit), MaxExportLimit)]]
       ELSE /\ pc' = [pc EXCEPT ![t] = "export_error"]
            /\ UNCHANGED args
    /\ data' = [data EXCEPT ![t] = NoBody]
    /\ UNCHANGED << env, knowledge_base, ragie, openai_client, interactions_log, log_lock,
                    chatLocals, workers, hist >>

\* except Exception as e: return jsonify({'error': str(e)}), 500
ExportError(t) ==
    /\ pc[t] = "export_error"
    /\ Finish(t, ReadError("export"))
    /\ UNCHANGED << env, knowledge_base, ragie, openai_client, interactions_log, log_lock,
                    calls, requests, workers, hist >>

\* with log_lock:
ExportLock(t) ==
    /\ pc[t] = "export_lock"
    /\ log_lock = 0
    /\ log_lock' = t
    /\ pc' = [pc EXCEPT ![t] = "export_read"]
    /\ UNCHANGED << env, knowledge_base, ragie, openai_client, interactions_log, data,
                    chatLocals, args, result, calls, requests, workers, hist >>

\* the body of the with block, leaving it, the serialisation and the
\* response
ExportRead(t) ==
    /\ pc[t] = "export_read"
    /\ log_lock = t
    /\ Finish(t, [op |-> "export", status |-> 200,
                  body |-> ExportBody(args[t].format,
                                      ExportList(interactions_log, args[t].limit)),
                  limit |-> args[t].limit])
    /\ interactions_log' = DequeAfterRead(interactions_log)
    /\ log_lock' = 0
    /\ UNCHANGED << env, knowledge_base, ragie, openai_client, calls, requests, workers, hist >>

Export(t) ==
    \/ \E f \in Formats, la \in ExportLimitArgs : ExportRequest(t, f, la)
    \/ ExportError(t)
    \/ ExportLock(t)
    \/ ExportRead(t)

(* --------------------------- specifications --------------------------- *)

Next == \E t \in Handlers : Chat(t) \/ List(t) \/ Get(t) \/ Export(t)

\* the threaded server: NumHandlers handler threads
Spec == Init /\ [][Next]_vars

\* a server with one handler thread: requests are served one after the other
InitSeq ==
    /\ env \in [ragie_key : BOOLEAN, openai_key : BOOLEAN]
    /\ knowledge_base = ChunkSeqs
    /\ ragie = FALSE
    /\ openai_client = FALSE
    /\ interactions_log = <<>>
    /\ log_lock = 0
    /\ pc = [t \in Handlers |-> "idle"]
    /\ data = [t \in Handlers |-> NoBody]
    /\ user_question = [t \in Handlers |-> <<>>]
    /\ sources = [t \in Handlers |-> <<>>]
    /\ answer = [t \in Handlers |-> <<>>]
    /\ interaction = [t \in Handlers |-> <<>>]
    /\ args = [t \in Handlers |-> NoArgs]
    /\ result = [t \in Handlers |-> NoResult]
    /\ calls = [t \in Handlers |-> NoCalls]
    /\ requests = 0
    /\ workers = 1
    /\ hist = <<>>

SpecSeq == InitSeq /\ [][Next]_vars

\* a server with one handler thread in front of a knowledge base that
\* answers every query with the same chunks, of texts around the snippet
\* length
InitLong ==
    /\ env \in [ragie_key : BOOLEAN, openai_key : BOOLEAN]
    /\ knowledge_base \in { { chunks } : chunks \in LongChunkSeqs }
    /\ ragie = FALSE
    /\ openai_client = FALSE
    /\ interactions_log = <<>>
    /\ log_lock = 0
    /\ pc = [t \in Handlers |-> "idle"]
    /\ data = [t \in Handlers |-> NoBody]
    /\ user_question = [t \in Handlers |-> <<>>]
    /\ sources = [t \in Handlers |-> <<>>]
    /\ answer = [t \in Handlers |-> <<>>]
    /\ interaction = [t \in Handlers |-> <<>>]
    /\ args = [t \in Handlers |-> NoArgs]
    /\ result = [t \in Handlers |-> NoResult]
    /\ calls = [t \in Handlers |-> NoCalls]
    /\ requests = 0
    /\ workers = 1
    /\ hist = <<>>

SpecLong == InitLong /\ [][Next]_vars

(* ------------------------------ properties ---------------------------- *)

Last(s) == s[Len(s)]

\* the last n elements of s (all of s when it is shorter)
Suffix(s, n) == SubSeq(s, Max(Len(s) - n, 0) + 1, Len(s))

ChatDone(t) == pc[t] = "done" /\ result[t].op = "chat"

\* C1: the ids of the logged interactions, in append order, start at 1 and
\* are strictly increasing, so no id is assigned twice, also after the log
\* has reached capacity and evicted records.
C1_IdsStrictlyIncreasing ==
    /\ hist # <<>> => hist[1].id = 1
    /\ \A i, j \in 1..Len(hist) : i < j => hist[i].id < hist[j].id

\* C2: after k > maxlen appends, one after the other, to an empty log,
\* exactly maxlen records are retained, their ids are k-maxlen+1 .. k, and
\* a lookup of any id <= k-maxlen finds nothing.
C2_RetainedIdsAfterOverflow ==
    LET k == Len(hist)
    IN  k > maxlen =>
          /\ Len(interactions_log) = maxlen
          /\ \A i \in 1..Len(interactions_log) :
                interactions_log[i].id = k - maxlen + i
          /\ \A log_id \in 1..(k - maxlen) :
                GetLookup(interactions_log, log_id) = <<>>

\* C3: records appended by concurrent handlers carry pairwise distinct ids
\* that increase by one from each record to the next inserted one.  The
\* records looked at are those appended before the log is full, where no
\* eviction is involved.
C3_ConcurrentIdsDistinctNoGaps ==
    \A i, j \in 1..Min(Len(hist), maxlen) :
        i < j => hist[j].id - hist[i].id = j - i

\* C4: the log never holds more than maxlen records, and it holds the most
\* recently appended records in the order they were appended: an append to
\* a full log drops the oldest record and puts the new one at the end.
C4_BoundedMostRecent ==
    /\ Len(interactions_log) <= maxlen
    /\ interactions_log = Suffix(hist, maxlen)

\* an append to a full log has happened
C4_Witness ==
    /\ Len(hist) > maxlen
    /\ Len(interactions_log) = maxlen
    /\ interactions_log[1] # hist[1]

\* the question of the request is missing or empty after trimming: no
\* body, no 'question' key, or a string of nothing but whitespace
BlankQuestion(d) ==
    \/ d.kind \in {"falsy", "noquestion"}
    \/ d.kind = "str" /\ \A i \in 1..Len(d.question) : d.question[i] = " "

NoBackendCalls(t) ==
    calls[t].retrieval = 0 /\ calls[t].generation = 0 /\ calls[t].append = 0

C5_NoCoverageState ==
    \A t \in Handlers :
        (ChatDone(t) /\ calls[t].chunks = 0) =>
            /\ result[t].status = 200
            /\ result[t].success
            /\ result[t].sources = <<>>
            /\ result[t].answer = CannedAnswer
            /\ ~result[t].has_id
            /\ calls[t].generation = 0
            /\ calls[t].append = 0

C5_NoCoverageStep ==
    \A t \in Handlers :
        (pc[t] = "chat_retrieve" /\ pc'[t] = "done" /\ calls'[t].chunks = 0) =>
            /\ interactions_log' = interactions_log
            /\ hist' = hist

\* C5: a chat request whose retrieval returns no chunks succeeds with the
\* canned answer and no sources, never calls the generation backend, and
\* leaves the log as it was: the step that answers it appends nothing.
C5_NoCoverage == [](C5_NoCoverageState) /\ [][C5_NoCoverageStep]_vars

\* a request was answered on the no-coverage path while the log held a record
C5_Witness ==
    \E t \in Handlers :
        /\ ChatDone(t)
        /\ calls[t].chunks = 0
        /\ result[t].success
        /\ interactions_log # <<>>

LoggedStep(t) ==
    /\ pc'[t] = "done"
    /\ result'[t].op = "chat"
    /\ result'[t].success
    /\ result'[t].has_id
    /\ Len(hist') = Len(hist) + 1
    /\ SubSeq(hist', 1, Len(hist)) = hist
    /\ interactions_log' # <<>>
    /\ Last(interactions_log') = Last(hist')
    /\ Last(hist').id = result'[t].interaction_id
    /\ Last(hist').answer = result'[t].answer
    /\ Last(hist').question = result'[t].question

UnloggedStep == hist' = hist /\ interactions_log' = interactions_log

C7_Step ==
    \A t \in Handlers :
        /\ (pc'[t] # pc[t] /\ ~UnloggedStep) => LoggedStep(t)
        /\ (pc[t] # "done" /\ pc'[t] = "done" /\ result'[t].op = "chat") =>
              \/ LoggedStep(t)
              \/ UnloggedStep /\ ~result'[t].success /\ result'[t].status # 200
              \/ /\ UnloggedStep
                 /\ result'[t].success
                 /\ ~result'[t].has_id
                 /\ calls'[t].chunks = 0

\* C7: every chat request ends either with one record appended and a
\* success result carrying that record's id, or with nothing appended and
\* a failure result; the only success without an append is the no-coverage
\* answer.  The log changes in no other step of a handler, so a failed
\* retrieval or generation leaves it unchanged.
C7_AllOrNothing == [][C7_Step]_vars

\* one request was logged and answered with its id, and another failed in
\* the generation call while the log held that record
C7_Witness ==
    \E t, u \in Handlers :
        /\ ChatDone(t) /\ result[t].success /\ result[t].has_id
        /\ ChatDone(u) /\ ~result[u].success /\ calls[u].generation = 1
        /\ hist # <<>>

\* C8: whatever limit and offset, the page of a list response is in
\* strictly decreasing id order.
C8_PageStrictlyDecreasing ==
    \A t \in Handlers :
        (pc[t] = "done" /\ result[t].op = "list" /\ result[t].status = 200) =>
            \A i, j \in 1..Len(result[t].logs) :
                i < j => result[t].logs[i].id > result[t].logs[j].id

C9_Step ==
    \A t \in Handlers :
        ( /\ pc[t] = "list_read" /\ pc'[t] = "done"
          /\ args[t].limit = 50 /\ args[t].offset = 0
          /\ hist # <<>> ) =>
            /\ result'[t].status = 200
            /\ result'[t].logs # <<>>
            /\ result'[t].logs[1] = Last(hist)

\* C9: a list call with limit 50 and offset 0 that reads the log after an
\* append, with no other append in between, returns the record appended
\* last as the first element of its page.
C9_NewestFirstAfterAppend == [][C9_Step]_vars

\* a page of two different records whose first is the record appended last
C9_Witness ==
    \E t \in Handlers :
        /\ pc[t] = "done" /\ result[t].op = "list" /\ result[t].status = 200
        /\ result[t].limit = 50 /\ result[t].offset = 0
        /\ Len(result[t].logs) = 2
        /\ result[t].logs[1] # result[t].logs[2]
        /\ result[t].logs[1] = Last(hist)

\* elements [offset, offset+limit) of the newest-first view of log
PageOf(log, limit, offset) ==
    LET n == Len(log)
        stop == Min(offset + limit, n)
    IN  [k \in 1..Max(stop - offset, 0) |-> log[n - (offset + k) + 1]]

C10_Step ==
    \A t \in Handlers :
        (pc[t] = "list_read" /\ pc'[t] = "done" /\ args[t].offset >= 0) =>
            /\ result'[t].status = 200
            /\ result'[t].total = Len(interactions_log)
            /\ result'[t].logs =
                  PageOf(interactions_log, args[t].limit, args[t].offset)
            /\ args[t].offset >= Len(interactions_log) => result'[t].logs = <<>>

\* C10: for every offset >= 0 and every limit, a list call returns the
\* number of retained records as total and elements [offset, offset+limit)
\* of the newest-first view as its page; with offset >= total the page is
\* empty and the call succeeds.
C10_PageIsSlice == [][C10_Step]_vars

ListDone(t) == pc[t] = "done" /\ result[t].op = "list" /\ result[t].status = 200

\* C11: whatever integer limit and offset the caller sends, the page of a
\* list response holds at most 200 records and at most limit records (none
\* when limit is negative).
C11_PageAtMostLimit ==
    \A t \in Handlers :
        ListDone(t) =>
            /\ Len(result[t].logs) <= MaxListLimit
            /\ Len(result[t].logs) <= Max(result[t].limit, 0)

\* the n most recently appended records of log, newest first, for
\* n = min(limit, 1000, size), none when that is negative
NewestRecords(log, limit) ==
    LET n == Max(Min(Min(limit, MaxExportLimit), Len(log)), 0)
    IN  [k \in 1..n |-> log[Len(log) + 1 - k]]

C12_Step ==
    \A t \in Handlers :
        (pc[t] = "export_read" /\ pc'[t] = "done") =>
            LET body == result'[t].body
                expected == NewestRecords(interactions_log, args[t].limit)
            IN  /\ result'[t].status = 200
                /\ body.format = "json" =>
                      /\ body.logs = expected
                      /\ body.total_interactions = Len(body.logs)
                /\ body.format = "csv" =>
                      /\ Len(body.rows) = Len(expected)
                      /\ \A i \in 1..Len(expected) : body.rows[i] = Row(expected[i])
                /\ body.format = "txt" =>
                      /\ Len(body.rows) = Len(expected)
                      /\ \A i \in 1..Len(expected) : body.rows[i] = Row(expected[i])
                      /\ body.total_interactions = Len(body.rows)

\* C12: for every format and every limit, an export serialises exactly the
\* min(limit, 1000, size) most recently appended retained records, newest
\* first, as they are at the instant of the read, and the count it reports
\* is the number of records it emitted.
C12_ExportNewestLimit == [][C12_Step]_vars

ReadPcs == { "list_lock", "list_read", "list_error", "get_lock", "get_read",
             "export_lock", "export_read", "export_error" }

\* handler t takes a step of a list, get or export request
ReadStep(t) == pc'[t] # pc[t] /\ (pc[t] \in ReadPcs \/ pc'[t] \in ReadPcs)

C13_Step ==
    \A t \in Handlers :
        ReadStep(t) => interactions_log' = interactions_log /\ hist' = hist

\* C13: no step of a list, get or export request changes the log: the
\* retained records, their fields and their stored (insertion) order are
\* the same after the step as before it.
C13_ReadsKeepLog == [][C13_Step]_vars

\* a list returned two different records newest first, and the deque still
\* holds them in insertion order
C13_Witness ==
    \E t \in Handlers :
        /\ ListDone(t)
        /\ Len(result[t].logs) = 2
        /\ result[t].logs[1] # result[t].logs[2]
        /\ interactions_log = << result[t].logs[2], result[t].logs[1] >>
        /\ interactions_log = Suffix(hist, maxlen)

\* the ids, timestamps and answers of a sequence of records
Keys(s) == { << s[i].id, s[i].timestamp, s[i].answer >> : i \in 1..Len(s) }

\* the limit and offset values a list call can run with
ListLimits == { Min(ParseInt(a, DefaultListLimit), MaxListLimit) : a \in { b \in LimitArgs : ParseOk(b) } }
ListOffsets == { ParseInt(a, DefaultListOffset) : a \in { b \in OffsetArgs : ParseOk(b) } }

JsonExportStep(t) ==
    pc[t] = "export_read" /\ pc'[t] = "done" /\ result'[t].body.format = "json"

C14_AnyArgsStep ==
    \A t \in Handlers :
        JsonExportStep(t) =>
            \A l \in ListLimits, o \in ListOffsets :
                Keys(result'[t].body.logs) = Keys(ListPage(interactions_log, l, o))

\* C14 as stated: a json export and a list call that read the same log
\* state yield the same set of ids, timestamps and answers, whatever their
\* arguments.
C14_ExportEqualsList == [][C14_AnyArgsStep]_vars

C14_SameLimitStep ==
    \A t \in Handlers :
        /\ (JsonExportStep(t) /\ args[t].limit <= MaxListLimit) =>
              Keys(result'[t].body.logs) =
                 Keys(ListPage(interactions_log, args[t].limit, 0))
        /\ (pc[t] = "list_read" /\ pc'[t] = "done" /\ args[t].offset = 0) =>
              Keys(result'[t].logs) =
                 Keys(ExportBody("json", ExportList(interactions_log, args[t].limit)).logs)

\* C14 as amended: they yield the same set when both run with the same
\* limit, at most 200, and the list with offset 0.
C14_ExportEqualsListSameLimit == [][C14_SameLimitStep]_vars

\* a json export with limit 1 read a log of two different records and
\* returned the newer one
C14_Witness ==
    \E t \in Handlers :
        /\ pc[t] = "done" /\ result[t].op = "export" /\ result[t].status = 200
        /\ result[t].body.format = "json"
        /\ result[t].limit = 1
        /\ Len(interactions_log) = 2
        /\ interactions_log[1] # interactions_log[2]
        /\ result[t].body.logs = << interactions_log[2] >>

\* where a handler is inside a with log_lock block
LockedPcs == { "chat_append", "list_read", "get_read", "export_read" }

C15_State ==
    \A t \in Handlers :
        /\ log_lock = t => pc[t] \in LockedPcs
        /\ pc[t] \in { "chat_retrieve", "chat_generate" } => log_lock # t

\* a step in which handler t calls a backend
BackendCallStep(t) ==
    \/ calls'[t].retrieval = calls[t].retrieval + 1
    \/ calls'[t].generation = calls[t].generation + 1

C15_Step ==
    \A t \in Handlers :
        BackendCallStep(t) => log_lock # t /\ log_lock' # t

\* C15: no handler calls the retrieval or the generation backend while it
\* holds the log lock; a chat request holds the lock only for its append,
\* and otherwise only list, get and export hold it.
C15_NoBackendCallUnderLock == [](C15_State) /\ [][C15_Step]_vars

\* one handler waits for the generation backend while another holds the lock
C15_Witness ==
    \E t, u \in Handlers :
        /\ pc[t] = "chat_generate"
        /\ log_lock = u
        /\ u # t

\* critical sections exclude each other
C16_Exclusive ==
    \A t, u \in Handlers :
        /\ pc[t] \in LockedPcs => log_lock = t
        /\ (pc[t] \in LockedPcs /\ pc[u] \in LockedPcs) => t = u

\* the id of an appended record is the one assigned from the log the
\* record is inserted into, and a read returns the view of the log of
\* that instant
C16_Step ==
    \A t \in Handlers :
        /\ (pc[t] = "chat_append" /\ pc'[t] = "done") =>
              Last(hist').id = NextId(interactions_log)
        /\ (pc[t] = "list_read" /\ pc'[t] = "done") =>
              /\ result'[t].total = Len(interactions_log)
              /\ result'[t].logs =
                    ListPage(interactions_log, args[t].limit, args[t].offset)

\* C16: under every interleaving each append (id assignment, insertion and
\* eviction together) and each read is one atomic step with respect to the
\* others: critical sections exclude each other, an appended record's id
\* is assigned from the log state it is inserted into, and a page is the
\* view of the log at one instant.
C16_AtomicAppendAndRead == [](C16_Exclusive) /\ [][C16_Step]_vars

\* C17: when the generation backend returns no text content (no choice,
\* None, or the empty string), the chat request fails with success=false
\* and appends no record.
C17_EmptyGenerationFails ==
    \A t \in Handlers :
        (ChatDone(t) /\ calls[t].content \in { "empty", "none", "nochoices" }) =>
            /\ ~result[t].success
            /\ calls[t].append = 0

\* both backend clients can be obtained: created before, or the key is set
ClientsAvailable == (ragie \/ env.ragie_key) /\ (openai_client \/ env.openai_key)

\* C18: a chat request is reported as a configuration error exactly when a
\* required backend credential is absent; a failure raised by the retrieval
\* or the generation call is never reported as a configuration error.
C18_ConfigErrorIffNoCredential ==
    \A t \in Handlers :
        ChatDone(t) =>
            /\ (result[t].error = "Configuration error") <=> ~ClientsAvailable
            /\ (calls[t].retrieval > 0 \/ calls[t].generation > 0) =>
                  result[t].error # "Configuration error"


Ellipsis == <<".", ".", ".">>

\* snippet is what the claim prescribes for the chunk text
SnippetOf(text, snippet) ==
    IF Len(text) <= SnippetLen
    THEN snippet = text
    ELSE /\ Len(snippet) = SnippetLen + 3
         /\ \A j \in 1..SnippetLen : snippet[j] = text[j]
         /\ \A j \in 1..3 : snippet[SnippetLen + j] = Ellipsis[j]

\* a chat request answered with the sources of at least one retrieved chunk
SourcesDone(t) == ChatDone(t) /\ result[t].success /\ calls[t].chunks >= 1

\* C19: when the retrieval of a chat request returns n >= 1 chunks, the
\* sources list of its response has exactly n entries in the order of the
\* chunks, entry i names the document of chunk i, and each snippet is the
\* chunk text when that has at most 150 characters and otherwise its first
\* 150 characters followed by "..." (153 characters).
C19_SourcesFollowChunks ==
    \A t \in Handlers :
        SourcesDone(t) =>
            LET chunks == calls[t].retrieved
                srcs == result[t].sources
            IN /\ Len(chunks) = calls[t].chunks
               /\ Len(srcs) = Len(chunks)
               /\ \A i \in 1..Len(chunks) :
                     /\ srcs[i].name = chunks[i].doc_name
                     /\ srcs[i].id = chunks[i].doc_id
                     /\ SnippetOf(chunks[i].text, srcs[i].snippet)

\* a response with three sources: the first cut to 153 characters, the second
\* the whole text of exactly 150 characters
C19_Witness ==
    \E t \in Handlers :
        /\ SourcesDone(t)
        /\ Len(result[t].sources) = 3
        /\ Len(calls[t].retrieved[1].text) = SnippetLen + 1
        /\ Len(result[t].sources[1].snippet) = SnippetLen + 3
        /\ Len(calls[t].retrieved[2].text) = SnippetLen
        /\ result[t].sources[2].snippet = calls[t].retrieved[2].text
        /\ result[t].sources[3].name = "FundB"


\* the body of handler t's request passed validation
ValidationPassed(t) == data[t].kind = "str" /\ ~BlankQuestion(data[t])

\* the calls handler t has made for its request are in the order of the
\* steps, each made once at most
C20_State ==
    \A t \in Handlers :
        /\ calls[t].retrieval \in {0, 1}
        /\ calls[t].generation \in {0, 1}
        /\ calls[t].append \in {0, 1}
        /\ calls[t].retrieval = 1 => ValidationPassed(t)
        /\ calls[t].generation = 1 =>
              calls[t].retrieval = 1 /\ calls[t].chunks >= 1
        /\ calls[t].append = 1 =>
              calls[t].generation = 1 /\ calls[t].content \in {"text", "empty"}
        /\ (ChatDone(t) /\ calls[t].chunks = 0) => calls[t].generation = 0

\* a step leaves a finished request as it is, unless it is the arrival of
\* the next request at that handler
C20_Step ==
    \A t \in Handlers :
        pc[t] = "done" =>
            \/ requests' = requests + 1 /\ pc'[t] \notin {"done", "idle"}
            \/ /\ pc'[t] = "done"
               /\ result'[t] = result[t]
               /\ calls'[t] = calls[t]

\* C20: within one chat request the retrieval call is made only after
\* validation passed, the generation call only after retrieval returned at
\* least one chunk, and the log append only after generation returned; an
\* empty retrieval ends the request without a generation call; once the
\* request is answered, with success or failure, it takes no further step.
C20_StepOrder == [](C20_State) /\ [][C20_Step]_vars

\* one request went through every step and was logged, while another ended
\* at the empty retrieval
C20_Witness ==
    \E t, u \in Handlers :
        /\ ChatDone(t) /\ result[t].has_id
        /\ calls[t].retrieval = 1 /\ calls[t].generation = 1 /\ calls[t].append = 1
        /\ ChatDone(u) /\ calls[u].chunks = 0 /\ calls[u].retrieval = 1


\* the generation call of handler t's finished chat request returned text
GenerationDone(t) ==
    ChatDone(t) /\ calls[t].generation = 1 /\ calls[t].content = "text"

\* such a request has appended once, and no request appends twice
C21_State ==
    \A t \in Handlers :
        /\ calls[t].append <= 1
        /\ GenerationDone(t) => calls[t].append = 1 /\ result[t].has_id

\* handler t appends in this step
AppendStep(t) == calls'[t].append = calls[t].append + 1

\* a step appends one record at most, only as the append of one request;
\* the record carries that request's question and answer, the number of the
\* sources returned and the length of the answer; the records retained
\* before the step are the same after it, but for the evicted one
C21_Step ==
    LET k == Len(hist') - Len(hist)
        n == Len(interactions_log)
        m == Len(interactions_log')
    IN  /\ k \in {0, 1}
        /\ k = 1 <=> \E t \in Handlers : AppendStep(t)
        /\ m = Min(n + k, maxlen)
        /\ \A i \in 1..(m - k) : interactions_log'[i] = interactions_log[i + n + k - m]
        /\ \A t \in Handlers :
              AppendStep(t) =>
                  LET rec == interactions_log'[m]
                  IN  /\ pc[t] = "chat_append"
                      /\ calls[t].generation = 1
                      /\ result'[t].success
                      /\ rec.question = user_question[t]
                      /\ rec.question = result'[t].question
                      /\ rec.answer = answer[t]
                      /\ rec.answer = result'[t].answer
                      /\ rec.sources_count = Len(result'[t].sources)
                      /\ rec.sources = result'[t].sources
                      /\ rec.answer_length = Len(result'[t].answer)

\* C21: a chat request whose generation call returned an answer appends
\* exactly one record to the log; the record's question and answer are the
\* request's, its sources_count is the number of sources returned to the
\* caller and its answer_length the number of characters of the answer; a
\* retained record is not changed by any later step until it is evicted.
C21_OneRecordPerRequest == [](C21_State) /\ [][C21_Step]_vars

\* three requests were logged, the first record has been evicted, and the
\* last request's record is the newest one
C21_Witness ==
    \E t \in Handlers :
        /\ GenerationDone(t) /\ result[t].has_id
        /\ Len(hist) = maxlen + 1
        /\ Len(interactions_log) = maxlen
        /\ Last(interactions_log).question = result[t].question
        /\ Last(interactions_log).answer_length = 2


\* C22: while the record of a logged chat request is retained, a lookup by
\* its id, the interaction_id returned to the caller, finds that very record
\* and not the record of another interaction: no two retained records share
\* an id.
C22_LookupFindsOwnRecord ==
    \A i \in 1..Len(interactions_log) :
        /\ GetLookup(interactions_log, interactions_log[i].id) = << interactions_log[i] >>
        /\ \A j \in 1..Len(interactions_log) :
              i # j => interactions_log[i].id # interactions_log[j].id


(* ------------------------------ progress ------------------------------ *)

\* a step of handler t's request other than taking the lock: the thread
\* runs on, and a backend call returns or raises
Work(t) ==
    \/ ChatClients(t)
    \/ ChatValidate(t)
    \/ \E exc \in Raises : ChatRetrieveRaise(t, exc)
    \/ \E chunks \in knowledge_base : ChatRetrieve(t, chunks)
    \/ \E exc \in Raises : ChatGenerateRaise(t, exc)
    \/ \E content \in Contents : ChatGenerate(t, content)
    \/ ChatBuild(t)
    \/ ChatAppend(t)
    \/ ListError(t)
    \/ ListRead(t)
    \/ GetRead(t)
    \/ ExportError(t)
    \/ ExportRead(t)

\* handler t enters a with log_lock: block
Acquire(t) == ChatLock(t) \/ ListLock(t) \/ GetLock(t) \/ ExportLock(t)

\* every handler thread keeps running and every backend call ends; a
\* handler that finds the lock free again and again gets it
Fairness == \A t \in Handlers : WF_vars(Work(t)) /\ SF_vars(Acquire(t))

\* the server with its handler threads after it has answered a first
\* GET /api/logs/1 on the empty log with 404
InitLive ==
    /\ env \in [ragie_key : BOOLEAN, openai_key : BOOLEAN]
    /\ knowledge_base = ChunkSeqs
    /\ ragie = FALSE
    /\ openai_client = FALSE
    /\ interactions_log = <<>>
    /\ log_lock = 0
    /\ pc = [t \in Handlers |-> IF t = 1 THEN "done" ELSE "idle"]
    /\ data = [t \in Handlers |-> NoBody]
    /\ user_question = [t \in Handlers |-> <<>>]
    /\ sources = [t \in Handlers |-> <<>>]
    /\ answer = [t \in Handlers |-> <<>>]
    /\ interaction = [t \in Handlers |-> <<>>]
    /\ args = [t \in Handlers |-> NoArgs]
    /\ result = [t \in Handlers |->
                   IF t = 1
                   THEN [op |-> "get", status |-> 404, log |-> <<>>, log_id |-> 1]
                   ELSE NoResult]
    /\ calls = [t \in Handlers |-> NoCalls]
    /\ requests = 1
    /\ workers = NumHandlers
    /\ hist = <<>>

SpecLive == InitLive /\ [][Next]_vars /\ Fairness

\* handler t is inside a request
Busy(t) == pc[t] \notin {"idle", "done"}

\* C23: when every backend call returns or raises and the lock is granted
\* fairly, every chat, list, get and export request reaches its response,
\* every holder of the log lock releases it, on every path out of the
\* critical section, and no handler waits for the lock forever.
C23_EveryRequestEnds ==
    /\ \A t \in Handlers : Busy(t) ~> (pc[t] = "done")
    /\ \A t \in Handlers : (log_lock = t) ~> (log_lock # t)
    /\ \A t \in Handlers :
          (pc[t] \in {"chat_lock", "list_lock", "get_lock", "export_lock"})
              ~> (log_lock = t)
    /\ [](\A t \in Handlers : ~Busy(t) => log_lock # t)

\* one handler is inside the critical section while the other waits for
\* the lock
C23_Witness ==
    \E t, u \in Handlers :
        /\ log_lock = t
        /\ pc[t] = "get_read"
        /\ pc[u] \in {"chat_lock", "list_lock", "get_lock", "export_lock"}

====
